---- MODULE Spec2Model ----
(***************************************************************************)
(* Model of com/win32com/src/MiscTypes.cpp: the PyComTypeObject family of  *)
(* type descriptors (constructor, method chain, is_interface_type) and the *)
(* generic iterator entry points of the IEnum* and IEnum-provider types.   *)
(*                                                                         *)
(* Pointers are integers (0 is the null pointer, 1..MaxTypes are the       *)
(* addresses of the statically allocated PyComTypeObject objects, negative *)
(* numbers are the host's own type objects).  Python objects are records   *)
(* [k, n]: k is the kind of object and n tells objects of a kind apart.    *)
(* The per-thread error indicator of the host is the string err, "none"    *)
(* when no error is pending.                                               *)
(***************************************************************************)
EXTENDS Integers, Sequences, FiniteSets, TLC

VARIABLES
    tobj,         \* the storage of each static PyComTypeObject
    constructed,  \* the type objects whose constructor has run
    ctorBase,     \* history: the pBase each constructor was given
    self,         \* the wrapped instance the host iterates
    items,        \* contents of the native enumerator behind self
    pos,          \* cursor of the native enumerator behind self
    out,          \* history: items the advance calls fetched and returned
    clean,        \* history: every advance so far fell through to a plain fetch
    iters,        \* the sequence iterators PySeqIter_New has created
    last,         \* record of the last entry-point call and its outcome
    plainAdvances, \* history: the advances made so far while clean holds,
                  \* counted up to MaxCalls
    extraFetches  \* history: "Next" calls made so far, less the advances
                  \* that got past the hook and the lookup of "Next"

vars == <<tobj, constructed, ctorBase, self, items, pos, out, clean, iters, last,
          plainAdvances, extraFetches>>

(***************************************************************************)
(* Bounds of the model.                                                    *)
(***************************************************************************)
MaxTypes == 3
MaxItems == 2
MaxIters == 2
\* Plain advances are counted up to MaxCalls, which is more than MaxItems + 1.
MaxCalls == 4

TypeIds == 1..MaxTypes

(***************************************************************************)
(* Host type objects and the static marker type of this file.              *)
(***************************************************************************)
PyType_Type == -1
PyInterfaceType_Type == -2
PyBaseObject_Type == -3
PyInt_Type == -4
PyNone_Type == -5

\* The build this file compiles in: tp_iter and Py_TPFLAGS_HAVE_ITER are used
\* unconditionally, so the host has unified types and the macro is undefined.
OLD_PYTHON_TYPES == FALSE

(***************************************************************************)
(* Python objects.                                                         *)
(***************************************************************************)
NullObj == [k |-> "NULL", n |-> 0]
Py_None == [k |-> "None", n |-> 0]
SelfObj == [k |-> "self", n |-> 0]
Item(i) == [k |-> "item", n |-> i]
IntObj == [k |-> "int", n |-> 42]
EnumObj == [k |-> "enum", n |-> 1]
PyTuple_New(size) == [k |-> "tuple", n |-> size]
SeqIter(i) == [k |-> "seqiter", n |-> i]

NoErr == "none"
NoName == ""

(***************************************************************************)
(* Type descriptors.  A descriptor is the PyTypeObject part (ob_type,      *)
(* tp_name, tp_basicsize, tp_getattro, tp_flags, tp_iter, tp_iternext,     *)
(* tp_base) followed by the members PyComTypeObject adds (chain, baseType, *)
(* ctor) and the member PyComEnumProviderTypeObject adds                   *)
(* (enum_method_name).  A slot holds the name of the function installed in *)
(* it, NoSlot when it is null.                                             *)
(***************************************************************************)
NoSlot == "NULL"
SizeofPyIBase == 16

\* Storage of a static object before its constructor runs: all zero.
ZeroType ==
    [ob_type |-> 0, tp_name |-> NoName, tp_basicsize |-> 0,
     tp_getattro |-> NoSlot, tp_flags |-> {}, tp_iter |-> NoSlot,
     tp_iternext |-> NoSlot, tp_base |-> 0,
     chain |-> [methods |-> 0, link |-> 0], baseType |-> 0, ctor |-> 0,
     enum_method_name |-> NoName]

type_template ==
    [ob_type |-> IF OLD_PYTHON_TYPES THEN PyInterfaceType_Type ELSE PyType_Type,
     tp_name |-> "PythonComTypeTemplate", tp_basicsize |-> SizeofPyIBase,
     tp_getattro |-> "PyIBase::getattro", tp_flags |-> {}, tp_iter |-> NoSlot,
     tp_iternext |-> NoSlot,
     tp_base |-> IF OLD_PYTHON_TYPES THEN 0 ELSE PyInterfaceType_Type]

Faulty_chain_LinkIfBaseBuilt(pBase, methodList) ==
    [methods |-> methodList,
     link |-> IF pBase # 0 /\ tobj[pBase].chain.methods # 0 THEN pBase ELSE 0]

Faulty_chain_LinkPastBase(pBase, methodList) ==
    [methods |-> methodList,
     link |-> IF pBase # 0 THEN tobj[pBase].chain.link ELSE 0]

Faulty_chain_NoLink(pBase, methodList) ==
    [methods |-> methodList, link |-> 0]

Faulty_chain_BaseMethods(pBase, methodList) ==
    [methods |-> IF pBase # 0 THEN tobj[pBase].chain.methods ELSE methodList,
     link |-> IF pBase # 0 THEN pBase ELSE 0]

\* The chain member the constructor sets up: the type's own method list and
\* the address of the base's chain member (the base's address stands for it).
chain_init(pBase, methodList) ==
    [methods |-> methodList, link |-> IF pBase # 0 THEN pBase ELSE 0]

Faulty_ctor_CopiesParent(old, name, pBase, typeSize, methodList, thector) ==
    LET from == IF pBase # 0 THEN tobj[pBase] ELSE type_template IN
    [old EXCEPT
        !.ob_type = type_template.ob_type,
        !.tp_getattro = type_template.tp_getattro,
        !.tp_flags = from.tp_flags,
        !.tp_iter = from.tp_iter,
        !.tp_iternext = from.tp_iternext,
        !.tp_base = type_template.tp_base,
        !.chain = chain_init(pBase, methodList),
        !.baseType = pBase,
        !.ctor = thector,
        !.tp_name = name,
        !.tp_basicsize = typeSize]

\* PyComTypeObject::PyComTypeObject(name, pBase, typeSize, methodList, thector)
\* acting on the storage old of the object under construction.
PyComTypeObject_ctor(old, name, pBase, typeSize, methodList, thector) ==
    [old EXCEPT
        !.ob_type = type_template.ob_type,
        !.tp_getattro = type_template.tp_getattro,
        !.tp_flags = type_template.tp_flags,
        !.tp_iter = type_template.tp_iter,
        !.tp_iternext = type_template.tp_iternext,
        !.tp_base = type_template.tp_base,
        !.chain = chain_init(pBase, methodList),
        !.baseType = pBase,
        !.ctor = thector,
        !.tp_name = name,
        !.tp_basicsize = typeSize]

\* PyComEnumTypeObject::PyComEnumTypeObject
PyComEnumTypeObject_ctor(old, name, pBase, typeSize, methodList, thector) ==
    LET b == PyComTypeObject_ctor(old, name, pBase, typeSize, methodList, thector)
    IN  [b EXCEPT !.tp_iter = "PyComEnumTypeObject::iter",
                  !.tp_iternext = "PyComEnumTypeObject::iternext",
                  !.tp_flags = b.tp_flags \cup {"Py_TPFLAGS_HAVE_ITER"}]

\* PyComEnumProviderTypeObject::PyComEnumProviderTypeObject
PyComEnumProviderTypeObject_ctor(old, name, pBase, typeSize, methodList, thector, penum_method_name) ==
    LET b == PyComTypeObject_ctor(old, name, pBase, typeSize, methodList, thector)
    IN  [b EXCEPT !.enum_method_name = penum_method_name,
                  !.tp_iter = "PyComEnumProviderTypeObject::iter",
                  !.tp_flags = b.tp_flags \cup {"Py_TPFLAGS_HAVE_ITER"}]

(***************************************************************************)
(* The static wrapper-type definitions of a program: the arguments each    *)
(* static object passes to its constructor.  The base is left open.        *)
(***************************************************************************)
KindOf(t) ==
    CASE t % 3 = 1 -> "plain"
      [] t % 3 = 2 -> "enum"
      [] OTHER -> "provider"

DeclName(t) ==
    CASE t = 1 -> "PyIUnknown"
      [] t = 2 -> "PyIEnumVARIANT"
      [] t = 3 -> "PyIEnumProvider"
      [] OTHER -> "PyIDispatch"

DeclSize(t) == SizeofPyIBase + 4 * t
DeclMethods(t) == t
DeclCtor(t) == t
DeclEnumName(t) == "GetEnum"

MethodNames == {"QueryInterface", "Next", "GetEnum"}

\* The PyMethodDef array at address m (ml_meth tells the functions apart).
MethodList(m) ==
    CASE m = 1 -> << [ml_name |-> "QueryInterface", ml_meth |-> 11],
                     [ml_name |-> "Next", ml_meth |-> 12] >>
      [] m = 2 -> << [ml_name |-> "Next", ml_meth |-> 22] >>
      [] m = 3 -> << [ml_name |-> "GetEnum", ml_meth |-> 33],
                     [ml_name |-> "QueryInterface", ml_meth |-> 31] >>
      [] OTHER -> << [ml_name |-> "GetEnum", ml_meth |-> 10 * m + 3] >>

(***************************************************************************)
(* Lookup of a name against a chain link: walk from the given link toward  *)
(* the root, first binding found wins.  The walk over a null method table  *)
(* (a link whose descriptor is not constructed) has no defined result, and *)
(* a walk that does not end within fuel links does not end.                *)
(***************************************************************************)
NotFound == [found |-> "no", meth |-> 0]

RECURSIVE FindMethodInChain(_, _, _)
FindMethodInChain(link, nm, fuel) ==
    IF link = 0 THEN NotFound
    ELSE IF fuel = 0 THEN [found |-> "loop", meth |-> 0]
    ELSE LET c == tobj[link].chain IN
         IF c.methods = 0 THEN [found |-> "undef", meth |-> 0]
         ELSE LET hits == SelectSeq(MethodList(c.methods),
                                    LAMBDA d : d.ml_name = nm)
              IN  IF hits # << >>
                  THEN [found |-> "yes", meth |-> hits[1].ml_meth]
                  ELSE FindMethodInChain(c.link, nm, fuel - 1)

LookupFrom(t, nm) == FindMethodInChain(t, nm, MaxTypes + 1)

(***************************************************************************)
(* Objects the host can hand to is_interface_type.                         *)
(***************************************************************************)
TypeObj(p) == [k |-> "type", n |-> p]

HostTypes == {PyType_Type, PyInterfaceType_Type, PyBaseObject_Type,
              PyInt_Type, PyNone_Type}

ob_type(ob) ==
    CASE ob.k = "type" /\ ob.n \in TypeIds -> tobj[ob.n].ob_type
      [] ob.k = "type" /\ ob.n \notin TypeIds -> PyType_Type
      [] ob.k = "self" -> self.ob_type
      [] ob.k = "None" -> PyNone_Type
      [] ob.k \in {"int", "item"} -> PyInt_Type

tp_base(ob) ==
    CASE ob.k = "type" /\ ob.n \in TypeIds -> tobj[ob.n].tp_base
      [] ob.k = "type" /\ ob.n \in {PyInt_Type, PyNone_Type, PyType_Type}
            -> PyBaseObject_Type
      [] OTHER -> 0

Faulty_is_interface_type_AnyType(ob) ==
    IF OLD_PYTHON_TYPES
    THEN ob_type(ob) = PyInterfaceType_Type
    ELSE ob_type(ob) = PyType_Type

\* PyComTypeObject::is_interface_type(ob)
is_interface_type(ob) ==
    IF OLD_PYTHON_TYPES
    THEN ob_type(ob) = PyInterfaceType_Type
    ELSE ob_type(ob) = PyType_Type /\ tp_base(ob) = PyInterfaceType_Type

(***************************************************************************)
(* What the entry points get from their collaborators.                     *)
(*   hook   : outcome of the instance's virtual PyIBase::iter(),           *)
(*            [ret, err]; ret = NullObj and err = NoErr is "no value".     *)
(*   method : outcome of PyObject_GetAttrString, [ok, err].                *)
(*   result : outcome of PyObject_Call.  For "Next" it is                  *)
(*            [ok, haslen, items, err]: an object holding items whose      *)
(*            length can (haslen) or cannot be taken; for the provider     *)
(*            method it is [ok, val, err].                                 *)
(***************************************************************************)
HookValues == {Py_None, EnumObj}
HookErrors == {"HookError"}
LookupErrors == {"AttributeError"}
CallErrors == {"com_error", "KeyboardInterrupt"}
MethodResults == {Py_None, EnumObj, IntObj}

HookOutcomes ==
    {[ret |-> NullObj, err |-> NoErr]}
    \cup {[ret |-> v, err |-> NoErr] : v \in HookValues}
    \cup {[ret |-> NullObj, err |-> e] : e \in HookErrors}

LookupOutcomes ==
    {[ok |-> TRUE, err |-> NoErr]}
    \cup {[ok |-> FALSE, err |-> e] : e \in LookupErrors}

\* The outcome of an entry point: the returned object, the error indicator
\* on return, the attribute lookups and calls it made, and the sequences
\* over which it created new sequence iterators, in order of creation.
Outcome(ret, err, lookups, calls, made) ==
    [ret |-> ret, err |-> err, lookups |-> lookups, calls |-> calls,
     made |-> made]

\* PySequence_Length(o) with the error indicator it leaves.
PySequence_Length(o, err) ==
    IF o.haslen THEN [val |-> Len(o.items), err |-> err]
    ELSE [val |-> -1, err |-> "TypeError"]

\* PySequence_GetItem(o, i) for i >= 0, with the error indicator it leaves.
PySequence_GetItem(o, i, err) ==
    IF i < Len(o.items) THEN [ret |-> Item(o.items[i + 1]), err |-> err]
    ELSE [ret |-> NullObj, err |-> "IndexError"]

Faulty_iter_HookErrorIgnored(hook) ==
    LET rc == hook.ret IN
    IF rc # NullObj
    THEN Outcome(rc, hook.err, 0, 0, << >>)
    ELSE Outcome(SelfObj, hook.err, 0, 0, << >>)

\* PyComEnumTypeObject::iter(self)
PyComEnumTypeObject_iter(hook) ==
    LET rc == hook.ret IN
    IF rc # NullObj \/ hook.err # NoErr
    THEN Outcome(rc, hook.err, 0, 0, << >>)
    ELSE Outcome(SelfObj, NoErr, 0, 0, << >>)

Faulty_iternext_FailureAsStop(result) ==
    Outcome(NullObj, "StopIteration", 1, 1, << >>)

\* iternext when the call of "Next" returned no object.
iternext_no_result(result) == Outcome(NullObj, result.err, 1, 1, << >>)

Faulty_iternext_NeverAtEnd(len) == len < 0

Faulty_iternext_StopsOnOneItem(len) == len <= 1

\* iternext's test for the end of the enumeration.
iternext_at_end(len) == len = 0

Faulty_iternext_LastItem(result, err) ==
    PySequence_GetItem(result,
        IF result.items = << >> THEN 0 ELSE Len(result.items) - 1, err)

\* The item iternext takes from a fetched sequence.
iternext_item(result, err) == PySequence_GetItem(result, 0, err)

Faulty_iternext_args == << 2 >>

\* The argument tuple of the call of "Next": Py_BuildValue("(i)", 1).
iternext_args == << 1 >>

Faulty_iternext_HookErrorIgnored(ret, err) == ret # NullObj

\* iternext's test of what the hook gave: ret || PyErr_Occurred().
iternext_hook_decides(ret, err) == ret # NullObj \/ err # NoErr

Faulty_iternext_NoneAtEnd(hook, method, result) ==
    LET ret == hook.ret IN
    IF iternext_hook_decides(ret, hook.err)
    THEN Outcome(ret, hook.err, 0, 0, << >>)
    ELSE IF ~method.ok
    THEN Outcome(NullObj, method.err, 1, 0, << >>)
    ELSE IF ~result.ok
    THEN iternext_no_result(result)
    ELSE LET len == PySequence_Length(result, NoErr) IN
         IF iternext_at_end(len.val)
         THEN Outcome(Py_None, NoErr, 1, 1, << >>)
         ELSE LET item == iternext_item(result, len.err)
              IN  Outcome(item.ret, item.err, 1, 1, << >>)

\* PyComEnumTypeObject::iternext(self)
PyComEnumTypeObject_iternext(hook, method, result) ==
    LET ret == hook.ret IN
    IF iternext_hook_decides(ret, hook.err)
    THEN Outcome(ret, hook.err, 0, 0, << >>)
    ELSE IF ~method.ok
    THEN Outcome(NullObj, method.err, 1, 0, << >>)
    ELSE IF ~result.ok
    THEN iternext_no_result(result)
    ELSE LET len == PySequence_Length(result, NoErr) IN
         IF iternext_at_end(len.val)
         THEN Outcome(NullObj, "StopIteration", 1, 1, << >>)
         ELSE LET item == iternext_item(result, len.err)
              IN  Outcome(item.ret, item.err, 1, 1, << >>)

\* PySeqIter_New(seq) when nseq iterators exist already: a new object.
PySeqIter_New(seq, nseq) == SeqIter(nseq + 1)

Faulty_provider_NoneOrFailure(result) == result = Py_None \/ result = NullObj

\* The provider's test for a method that returned None.
provider_is_none(result) == result = Py_None

Faulty_provider_ReturnsNone(nseq) ==
    Outcome(Py_None, NoErr, 1, 1, << >>)

Faulty_provider_ReturnsTuple(nseq) ==
    Outcome(PyTuple_New(0), NoErr, 1, 1, << >>)

\* The provider's stand-in for None: an iterator over a new empty tuple.
\* The host's allocations succeed here, so the test of dummy never fails.
provider_empty_iterator(nseq) ==
    LET dummy == PyTuple_New(0) IN
    IF dummy = NullObj
    THEN Outcome(NullObj, "MemoryError", 1, 1, << >>)
    ELSE Outcome(PySeqIter_New(dummy, nseq), NoErr, 1, 1, << dummy >>)

\* PyComEnumProviderTypeObject::iter(self); nseq is the number of sequence
\* iterators created so far.
PyComEnumProviderTypeObject_iter(hook, method, mres, nseq) ==
    IF hook.ret # NullObj \/ hook.err # NoErr
    THEN Outcome(hook.ret, hook.err, 0, 0, << >>)
    ELSE IF ~method.ok
    THEN Outcome(NullObj, method.err, 1, 0, << >>)
    ELSE LET result == IF mres.ok THEN mres.val ELSE NullObj IN
         IF provider_is_none(result)
         THEN provider_empty_iterator(nseq)
         ELSE Outcome(result, mres.err, 1, 1, << >>)

(***************************************************************************)
(* Reference ownership.  What an entry point does to reference counts, in  *)
(* program order: "new" is a reference handed to the entry point by the    *)
(* function it called, "incref" and "decref" are Py_INCREF and Py_DECREF,  *)
(* "use" passes the object to a call, "return" hands the entry point's     *)
(* reference to its caller.  The objects are named by the variable that    *)
(* holds them.                                                             *)
(***************************************************************************)
Ev(e, o) == [ev |-> e, ob |-> o]

\* The references of PyComEnumTypeObject::iter(self).
PyComEnumTypeObject_iter_refs(hook) ==
    LET rc == hook.ret IN
    IF rc # NullObj
    THEN << Ev("new", "rc"), Ev("return", "rc") >>
    ELSE IF hook.err # NoErr
    THEN << >>
    ELSE << Ev("incref", "self"), Ev("return", "self") >>

Faulty_iternext_refs_KeepsResult(hook, method, result) ==
    IF hook.ret # NullObj
    THEN << Ev("new", "ret"), Ev("return", "ret") >>
    ELSE IF hook.err # NoErr \/ ~method.ok
    THEN << >>
    ELSE << Ev("new", "method"), Ev("new", "args"),
            Ev("use", "method"), Ev("use", "args") >>
         \o (IF result.ok THEN << Ev("new", "result") >> ELSE << >>)
         \o << Ev("decref", "method"), Ev("decref", "args") >>
         \o (IF ~result.ok THEN << >>
             ELSE << Ev("use", "result") >>
                  \o (IF iternext_at_end(PySequence_Length(result, NoErr).val)
                      THEN << >>
                      ELSE << Ev("use", "result") >>
                           \o (IF iternext_item(result, NoErr).ret # NullObj
                               THEN << Ev("new", "item") >> ELSE << >>)
                           \o << Ev("decref", "result") >>
                           \o (IF iternext_item(result, NoErr).ret # NullObj
                               THEN << Ev("return", "item") >> ELSE << >>)))

\* The references of PyComEnumTypeObject::iternext(self).
PyComEnumTypeObject_iternext_refs(hook, method, result) ==
    IF hook.ret # NullObj
    THEN << Ev("new", "ret"), Ev("return", "ret") >>
    ELSE IF hook.err # NoErr \/ ~method.ok
    THEN << >>
    ELSE << Ev("new", "method"), Ev("new", "args"),
            Ev("use", "method"), Ev("use", "args") >>
         \o (IF result.ok THEN << Ev("new", "result") >> ELSE << >>)
         \o << Ev("decref", "method"), Ev("decref", "args") >>
         \o (IF ~result.ok THEN << >>
             ELSE << Ev("use", "result") >>
                  \o (IF iternext_at_end(PySequence_Length(result, NoErr).val)
                      THEN << >>
                      ELSE << Ev("use", "result") >>
                           \o (IF iternext_item(result, NoErr).ret # NullObj
                               THEN << Ev("new", "item") >> ELSE << >>))
                  \o << Ev("decref", "result") >>
                  \o (IF ~iternext_at_end(PySequence_Length(result, NoErr).val)
                         /\ iternext_item(result, NoErr).ret # NullObj
                      THEN << Ev("return", "item") >> ELSE << >>))

\* The references of PyComEnumProviderTypeObject::iter(self).
PyComEnumProviderTypeObject_iter_refs(hook, method, mres) ==
    IF hook.ret # NullObj
    THEN << Ev("new", "result"), Ev("return", "result") >>
    ELSE IF hook.err # NoErr \/ ~method.ok
    THEN << >>
    ELSE << Ev("new", "method"), Ev("new", "args"),
            Ev("use", "method"), Ev("use", "args") >>
         \o (IF mres.ok THEN << Ev("new", "result") >> ELSE << >>)
         \o << Ev("decref", "method"), Ev("decref", "args") >>
         \o (IF ~mres.ok THEN << >>
             ELSE IF provider_is_none(mres.val)
             THEN << Ev("decref", "result"), Ev("new", "dummy"),
                     Ev("use", "dummy"), Ev("new", "iterator"),
                     Ev("decref", "dummy"), Ev("return", "iterator") >>
             ELSE << Ev("return", "result") >>)

(***************************************************************************)
(* The native enumerator behind self: "fetch next" hands out the items     *)
(* from the cursor on and moves the cursor past them.  A well-behaved      *)
(* enumerator asked for celt items hands out at most celt (mode "ok"); the *)
(* call may also fail ("fail"), hand out more than was asked for ("over"), *)
(* or answer with an object whose length cannot be taken ("nolen").        *)
(***************************************************************************)
Min(a, b) == IF a < b THEN a ELSE b

FetchModes == {"ok", "over", "nolen", "fail"}

NativeNext(celt, mode, e) ==
    LET want == IF mode = "over" THEN celt + 1 ELSE celt
        k == Min(want, Len(items) - pos)
    IN  IF mode = "fail"
        THEN [result |-> [ok |-> FALSE, haslen |-> FALSE, items |-> << >>,
                          err |-> e],
              pos |-> pos]
        ELSE [result |-> [ok |-> TRUE, haslen |-> (mode # "nolen"),
                          items |-> SubSeq(items, pos + 1, pos + k),
                          err |-> NoErr],
              pos |-> pos + k]

MethodOutcomes ==
    {[ok |-> TRUE, val |-> v, err |-> NoErr] : v \in MethodResults}
    \cup {[ok |-> FALSE, val |-> NullObj, err |-> e] : e \in CallErrors}

(***************************************************************************)
(* The record of a call.                                                   *)
(***************************************************************************)
NoHook == [ret |-> NullObj, err |-> NoErr]
Skipped == [ok |-> FALSE, err |-> "skipped"]

NoCall ==
    [op |-> "none", hook |-> NoHook, method |-> Skipped, attr |-> NoName,
     mode |-> "skipped", inj |-> NoErr, fetched |-> << >>, mval |-> NullObj,
     ret |-> NullObj, err |-> NoErr, lookups |-> 0, calls |-> 0,
     pos0 |-> 0, clean0 |-> TRUE, made |-> 0, asked |-> 0,
     refs |-> << >>]

(***************************************************************************)
(* Initial state: static storage is zero, nothing is constructed.          *)
(***************************************************************************)
Init ==
    /\ tobj = [t \in TypeIds |-> ZeroType]
    /\ constructed = {}
    /\ ctorBase = [t \in TypeIds |-> 0]
    /\ self = [ob_type |-> 0]
    /\ items = << >>
    /\ pos = 0
    /\ out = << >>
    /\ clean = TRUE
    /\ iters = << >>
    /\ last = NoCall
    /\ plainAdvances = 0
    /\ extraFetches = 0

iterVars == <<self, items, pos, out, clean, iters, last, plainAdvances,
              extraFetches>>

(***************************************************************************)
(* Construction of the static type objects, in any order.                  *)
(***************************************************************************)
Bases(t) == (TypeIds \ {t}) \cup {0}

Faulty_ConstructPlain_LinksBaseBack(t, pBase) ==
    /\ t \notin constructed
    /\ KindOf(t) = "plain"
    /\ tobj' = [u \in TypeIds |->
                   IF u = t
                   THEN PyComTypeObject_ctor(tobj[t], DeclName(t), pBase,
                            DeclSize(t), DeclMethods(t), DeclCtor(t))
                   ELSE IF u = pBase
                   THEN [tobj[u] EXCEPT !.chain.link = t]
                   ELSE tobj[u]]
    /\ constructed' = constructed \cup {t}
    /\ ctorBase' = [ctorBase EXCEPT ![t] = pBase]
    /\ UNCHANGED iterVars

ConstructPlain(t, pBase) ==
    /\ t \notin constructed
    /\ KindOf(t) = "plain"
    /\ tobj' = [tobj EXCEPT ![t] =
                   PyComTypeObject_ctor(tobj[t], DeclName(t), pBase,
                       DeclSize(t), DeclMethods(t), DeclCtor(t))]
    /\ constructed' = constructed \cup {t}
    /\ ctorBase' = [ctorBase EXCEPT ![t] = pBase]
    /\ UNCHANGED iterVars

ConstructEnum(t, pBase) ==
    /\ t \notin constructed
    /\ KindOf(t) = "enum"
    /\ tobj' = [tobj EXCEPT ![t] =
                   PyComEnumTypeObject_ctor(tobj[t], DeclName(t), pBase,
                       DeclSize(t), DeclMethods(t), DeclCtor(t))]
    /\ constructed' = constructed \cup {t}
    /\ ctorBase' = [ctorBase EXCEPT ![t] = pBase]
    /\ UNCHANGED iterVars

ConstructProvider(t, pBase) ==
    /\ t \notin constructed
    /\ KindOf(t) = "provider"
    /\ tobj' = [tobj EXCEPT ![t] =
                   PyComEnumProviderTypeObject_ctor(tobj[t], DeclName(t), pBase,
                       DeclSize(t), DeclMethods(t), DeclCtor(t),
                       DeclEnumName(t))]
    /\ constructed' = constructed \cup {t}
    /\ ctorBase' = [ctorBase EXCEPT ![t] = pBase]
    /\ UNCHANGED iterVars

(***************************************************************************)
(* The type's ctor wraps a native interface into a new instance of type t; *)
(* an enumerator instance wraps a native enumerator of n items.            *)
(***************************************************************************)
CreateInstance(t, n) ==
    /\ self.ob_type = 0
    /\ t \in constructed
    /\ tobj[t].ctor # 0
    /\ n = 0 \/ tobj[t].tp_iternext # NoSlot
    /\ self' = [ob_type |-> t]
    /\ items' = [i \in 1..n |-> i]
    /\ UNCHANGED <<tobj, constructed, ctorBase, pos, out, clean, iters, last,
                   plainAdvances, extraFetches>>

(***************************************************************************)
(* The host calls the iteration slots of self's type.                      *)
(***************************************************************************)
HasIterSlot(slot, fn) ==
    /\ self.ob_type # 0
    /\ "Py_TPFLAGS_HAVE_ITER" \in tobj[self.ob_type].tp_flags
    /\ tobj[self.ob_type][slot] = fn

CallEnumIter(hook) ==
    /\ HasIterSlot("tp_iter", "PyComEnumTypeObject::iter")
    /\ LET r == PyComEnumTypeObject_iter(hook) IN
       /\ last' = [NoCall EXCEPT !.op = "enum_iter", !.hook = hook,
                      !.ret = r.ret, !.err = r.err, !.lookups = r.lookups,
                      !.calls = r.calls, !.pos0 = pos, !.clean0 = clean,
                      !.refs = PyComEnumTypeObject_iter_refs(hook)]
       /\ extraFetches' = extraFetches + r.calls
    /\ UNCHANGED <<tobj, constructed, ctorBase, self, items, pos, out, clean,
                   iters, plainAdvances>>

CallEnumIterNext(hook, method, mode, e) ==
    /\ HasIterSlot("tp_iternext", "PyComEnumTypeObject::iternext")
    /\ LET celt == iternext_args[1]
           nat == NativeNext(celt, mode, e)
           r == PyComEnumTypeObject_iternext(hook, method, nat.result)
           looked == r.lookups > 0
           called == r.calls > 0
           past == hook = NoHook /\ method.ok
           plain == clean /\ past /\ mode = "ok"
       IN  /\ mode = "over" => Len(items) - pos >= celt + 1
           /\ extraFetches \in (0 - MaxCalls)..MaxCalls
           /\ clean' = plain
           /\ plainAdvances' = IF plain THEN Min(plainAdvances + 1, MaxCalls)
                               ELSE 0
           /\ extraFetches' = extraFetches + r.calls - (IF past THEN 1 ELSE 0)
           /\ pos' = IF called THEN nat.pos ELSE pos
           /\ out' = IF called /\ r.ret.k = "item" THEN Append(out, r.ret)
                     ELSE out
           /\ last' = [NoCall EXCEPT !.op = "enum_iternext", !.hook = hook,
                          !.method = IF looked THEN method ELSE Skipped,
                          !.attr = IF looked THEN "Next" ELSE NoName,
                          !.mode = IF called THEN mode ELSE "skipped",
                          !.inj = IF called THEN nat.result.err ELSE NoErr,
                          !.fetched = IF called THEN nat.result.items
                                      ELSE << >>,
                          !.ret = r.ret, !.err = r.err,
                          !.lookups = r.lookups, !.calls = r.calls,
                          !.pos0 = pos, !.clean0 = clean,
                          !.asked = IF called THEN celt ELSE 0,
                          !.refs = PyComEnumTypeObject_iternext_refs(hook,
                                       method, nat.result)]
    /\ UNCHANGED <<tobj, constructed, ctorBase, self, items, iters>>

CallProviderIter(hook, method, mres) ==
    /\ HasIterSlot("tp_iter", "PyComEnumProviderTypeObject::iter")
    /\ Len(iters) < MaxIters
    /\ LET r == PyComEnumProviderTypeObject_iter(hook, method, mres,
                                                 Len(iters))
           looked == r.lookups > 0
           called == r.calls > 0
       IN  /\ iters' = iters \o r.made
           /\ last' = [NoCall EXCEPT !.op = "provider_iter", !.hook = hook,
                          !.method = IF looked THEN method ELSE Skipped,
                          !.attr = IF looked
                                   THEN tobj[self.ob_type].enum_method_name
                                   ELSE NoName,
                          !.mode = IF called
                                   THEN (IF mres.ok THEN "ok" ELSE "fail")
                                   ELSE "skipped",
                          !.inj = IF called THEN mres.err ELSE NoErr,
                          !.mval = IF called THEN mres.val ELSE NullObj,
                          !.ret = r.ret, !.err = r.err,
                          !.lookups = r.lookups, !.calls = r.calls,
                          !.pos0 = pos, !.clean0 = clean,
                          !.made = Len(r.made),
                          !.refs = PyComEnumProviderTypeObject_iter_refs(
                                       hook, method, mres)]
    /\ UNCHANGED <<tobj, constructed, ctorBase, self, items, pos, out, clean,
                   plainAdvances, extraFetches>>

(***************************************************************************)
(* The outcomes of the collaborators are drawn only as far as the entry    *)
(* point can consult them: past a hook that yields something, a failed     *)
(* lookup or a call that does not fail, the later outcomes are not told    *)
(* apart.                                                                  *)
(***************************************************************************)
LookupsAfter(h) ==
    IF h = NoHook THEN LookupOutcomes ELSE {[ok |-> TRUE, err |-> NoErr]}

ModesAfter(h, m) == IF h = NoHook /\ m.ok THEN FetchModes ELSE {"ok"}

ErrorsOf(mode) == IF mode = "fail" THEN CallErrors ELSE {"com_error"}

MethodOutcomesAfter(h, m) ==
    IF h = NoHook /\ m.ok THEN MethodOutcomes
    ELSE {[ok |-> TRUE, val |-> EnumObj, err |-> NoErr]}

Next ==
    \/ \E t \in TypeIds : \E b \in Bases(t) : ConstructPlain(t, b)
    \/ \E t \in TypeIds : \E b \in Bases(t) : ConstructEnum(t, b)
    \/ \E t \in TypeIds : \E b \in Bases(t) : ConstructProvider(t, b)
    \/ \E t \in TypeIds : \E n \in 0..MaxItems : CreateInstance(t, n)
    \/ \E h \in HookOutcomes : CallEnumIter(h)
    \/ \E h \in HookOutcomes : \E m \in LookupsAfter(h) :
         \E mode \in ModesAfter(h, m) : \E e \in ErrorsOf(mode) :
            CallEnumIterNext(h, m, mode, e)
    \/ \E h \in HookOutcomes : \E m \in LookupsAfter(h) :
         \E r \in MethodOutcomesAfter(h, m) : CallProviderIter(h, m, r)

Spec == Init /\ [][Next]_vars

(***************************************************************************)
(* Properties of the enumerator adapter.                                   *)
(***************************************************************************)
\* The items x1..xk of the native enumerator as Python objects.
ItemsUpTo(k) == [i \in 1..k |-> Item(items[i])]

EnumAdvance == last.op = "enum_iternext"
ProviderBegin == last.op = "provider_iter"

\* C1: while every advance found the hook yielding no value, found "Next"
\* and got at most the one item asked for, begin iteration returns the
\* instance itself, the advances so far returned x1, x2, ... in that order,
\* one per advance, and an advance made with the native enumerator past its
\* last item signals exhaustion, as does every advance after it.
C1_EnumYieldsItemsThenStops ==
    /\ (last.op = "enum_iter" /\ last.hook = NoHook)
          => (last.ret = SelfObj /\ last.err = NoErr /\ pos = last.pos0)
    /\ clean => /\ pos <= Len(items)
                /\ out = ItemsUpTo(pos)
    /\ (clean /\ EnumAdvance) =>
          IF last.pos0 < Len(items)
          THEN /\ last.ret = Item(items[last.pos0 + 1])
               /\ last.err = NoErr
               /\ pos = last.pos0 + 1
          ELSE /\ last.ret = NullObj
               /\ last.err = "StopIteration"
               /\ pos = Len(items)

C1_Witness ==
    /\ clean /\ EnumAdvance
    /\ Len(items) = MaxItems
    /\ last.pos0 = Len(items)
    /\ last.err = "StopIteration"
    /\ out = ItemsUpTo(MaxItems)

\* C2: when the hook yields no value and looking up "Next" or calling it
\* fails, the advance returns no object with exactly that failure pending
\* (not exhaustion, not another error), the native cursor stays where it
\* was, and after a run of plain advances the items returned before are
\* exactly the items fetched before the failure.
C2_FetchFailurePropagates ==
    (EnumAdvance /\ last.hook = NoHook
        /\ (~last.method.ok \/ last.mode = "fail")) =>
        /\ last.ret = NullObj
        /\ last.err = (IF ~last.method.ok THEN last.method.err ELSE last.inj)
        /\ last.err \in LookupErrors \cup CallErrors
        /\ ~last.method.ok => last.calls = 0
        /\ pos = last.pos0
        /\ last.clean0 => out = ItemsUpTo(pos)

C2_Witness ==
    /\ EnumAdvance /\ last.hook = NoHook
    /\ last.mode = "fail" /\ last.inj = "KeyboardInterrupt"
    /\ last.clean0 /\ pos = 1 /\ out = << Item(1) >>

\* C3: when the instance's own hook returns an object or leaves a failure
\* pending, begin iteration of the enumerator adapter and of the provider
\* adapter returns exactly that object or failure, and looks up nothing,
\* calls nothing and creates nothing.
C3_HookShortCircuitsBegin ==
    (last.op \in {"enum_iter", "provider_iter"} /\ last.hook # NoHook) =>
        /\ last.ret = last.hook.ret
        /\ last.err = last.hook.err
        /\ last.lookups = 0
        /\ last.calls = 0
        /\ last.made = 0
        /\ pos = last.pos0

C3_Witness ==
    /\ ProviderBegin
    /\ last.hook = [ret |-> EnumObj, err |-> NoErr]
    /\ last.ret = EnumObj /\ last.calls = 0

\* C4: when the hook yields no value and the configured method is found and
\* returns None, begin iteration of the provider adapter returns, with no
\* error pending, a sequence iterator that did not exist before the call and
\* runs over a sequence of zero elements (so that its first advance finds
\* nothing); the call looked up the configured name once and called the
\* method once.
C4_NoneBecomesEmptyIterator ==
    (ProviderBegin /\ last.hook = NoHook /\ last.method.ok
        /\ last.mode = "ok" /\ last.mval = Py_None) =>
        /\ last.ret.k = "seqiter"
        /\ last.err = NoErr
        /\ last.made = 1
        /\ last.ret.n = Len(iters)
        /\ last.ret.n \notin 1..(Len(iters) - last.made)
        /\ iters[last.ret.n].k = "tuple" /\ iters[last.ret.n].n = 0
        /\ last.lookups = 1 /\ last.calls = 1
        /\ last.attr = tobj[self.ob_type].enum_method_name
        /\ last.attr = DeclEnumName(self.ob_type)

C4_Witness ==
    /\ ProviderBegin /\ last.hook = NoHook /\ last.mval = Py_None
    /\ last.ret = SeqIter(2) /\ Len(iters) = 2

(***************************************************************************)
(* Properties of the method chain.                                         *)
(***************************************************************************)
\* The types from t up to its root along the bases the constructors were
\* given, most derived first.
RECURSIVE ChainOf(_, _)
ChainOf(t, fuel) ==
    IF t = 0 \/ fuel = 0 THEN << >>
    ELSE << t >> \o ChainOf(ctorBase[t], fuel - 1)

\* p is a chain of constructed types that ends in a root.
IsChain(p) ==
    /\ p # << >>
    /\ \A i \in 1..Len(p) : p[i] \in constructed
    /\ \A i, j \in 1..Len(p) : i # j => p[i] # p[j]
    /\ ctorBase[p[Len(p)]] = 0

Chains == {p \in {ChainOf(t, MaxTypes) : t \in constructed} : IsChain(p)}

Binds(t, nm) ==
    \E i \in 1..Len(MethodList(DeclMethods(t))) :
        MethodList(DeclMethods(t))[i].ml_name = nm

Binding(t, nm) ==
    LET ml == MethodList(DeclMethods(t))
        i == CHOOSE i \in 1..Len(ml) : ml[i].ml_name = nm
    IN  [found |-> "yes", meth |-> ml[i].ml_meth]

\* C5: each constructed descriptor's chain link holds its own method table
\* and points to the chain link of the base it was given (to nothing for a
\* root); so in every chain of types, a name bound in the method table of
\* one type T of the chain only is found, as T's binding, from T and from
\* every type derived from T, and is not found from any base of T.
C5_LookupAlongChain ==
    /\ \A t \in constructed :
          /\ tobj[t].chain.methods = DeclMethods(t)
          /\ tobj[t].chain.link = ctorBase[t]
    /\ \A p \in Chains : \A nm \in MethodNames : \A k \in 1..Len(p) :
          (Binds(p[k], nm) /\ \A i \in 1..Len(p) : i # k => ~Binds(p[i], nm))
          => \A j \in 1..Len(p) :
                IF j <= k THEN LookupFrom(p[j], nm) = Binding(p[k], nm)
                ELSE LookupFrom(p[j], nm) = NotFound

C5_Witness ==
    \E p \in Chains :
        /\ Len(p) = 3
        /\ \E nm \in MethodNames :
              /\ Binds(p[2], nm) /\ ~Binds(p[1], nm) /\ ~Binds(p[3], nm)
              /\ LookupFrom(p[1], nm).found = "yes"
              /\ LookupFrom(p[3], nm).found = "no"

\* C6: in every chain of types, a lookup of a name started at a type of the
\* chain returns the binding of the nearest type, from the starting type
\* toward the root, whose method table binds the name: a binding of a base
\* is never returned when the starting type or a type between them binds
\* the name too.
C6_DerivedShadowsBase ==
    \A p \in Chains : \A nm \in MethodNames : \A j \in 1..Len(p) :
        LET ks == {k \in j..Len(p) : Binds(p[k], nm)} IN
        ks # {} =>
            LET k == CHOOSE k \in ks : \A x \in ks : k <= x
            IN  LookupFrom(p[j], nm) = Binding(p[k], nm)

C6_Witness ==
    \E p \in Chains : \E nm \in MethodNames :
        /\ Len(p) = 3
        /\ Binds(p[1], nm) /\ ~Binds(p[2], nm) /\ Binds(p[3], nm)
        /\ LookupFrom(p[1], nm) = Binding(p[1], nm)
        /\ LookupFrom(p[2], nm) = Binding(p[3], nm)
        /\ Binding(p[1], nm) # Binding(p[3], nm)

(***************************************************************************)
(* Properties of is_interface_type.                                        *)
(***************************************************************************)
\* Values of the host that no PyComTypeObject constructor built.
HostValues ==
    {Py_None, IntObj, Item(1)} \cup {TypeObj(h) : h \in HostTypes}

\* C7 as stated: is_interface_type is true of every instance created through
\* a constructed descriptor and false of every value of the host.
C7_Stated_InstancesAreInterfaceTypes ==
    /\ self.ob_type # 0 => is_interface_type(SelfObj)
    /\ \A v \in HostValues : ~is_interface_type(v)

\* C7: is_interface_type is true of every type object a constructor of the
\* family has built (plain, enumerator or provider, root or derived), so of
\* the type of every instance created through one; it is false of the
\* instances themselves, of static storage no constructor has run on, and of
\* every value of the host.
C7_DescriptorsAreInterfaceTypes ==
    /\ \A t \in constructed : is_interface_type(TypeObj(t))
    /\ \A t \in TypeIds \ constructed : ~is_interface_type(TypeObj(t))
    /\ self.ob_type # 0 =>
          /\ is_interface_type(TypeObj(self.ob_type))
          /\ ~is_interface_type(SelfObj)
    /\ \A v \in HostValues : ~is_interface_type(v)

C7_Witness ==
    /\ constructed = TypeIds
    /\ self.ob_type # 0
    /\ ctorBase[self.ob_type] # 0
    /\ KindOf(self.ob_type) = "enum"
    /\ \E t \in constructed : ctorBase[t] = 0

(***************************************************************************)
(* Properties of the results of the adapters.                              *)
(***************************************************************************)
\* C8: when the hook yields no value and "Next" is found and returns a
\* sequence, the advance signals exhaustion exactly when the sequence is
\* empty, and otherwise returns its first item with nothing pending, the
\* further items being returned by no advance; exhaustion is not signalled
\* when the lookup or the call failed, and then the failure is what is
\* pending.
C8_ExhaustionIffEmptyFetch ==
    /\ (EnumAdvance /\ last.hook = NoHook /\ last.method.ok
           /\ last.mode \in {"ok", "over"}) =>
          /\ (last.err = "StopIteration") <=> (Len(last.fetched) = 0)
          /\ Len(last.fetched) = 0 => last.ret = NullObj
          /\ Len(last.fetched) >= 1 =>
                /\ last.ret = Item(last.fetched[1])
                /\ last.err = NoErr
                /\ pos = last.pos0 + Len(last.fetched)
                /\ last.clean0 =>
                      out = Append(ItemsUpTo(last.pos0), last.ret)
    /\ (EnumAdvance /\ last.hook = NoHook
           /\ (~last.method.ok \/ last.mode = "fail")) =>
          /\ last.err # "StopIteration"
          /\ last.err # NoErr
    /\ (EnumAdvance /\ last.hook = NoHook /\ last.err = "StopIteration") =>
          /\ last.method.ok
          /\ last.mode \in {"ok", "over"}
          /\ last.fetched = << >>

C8_Witness ==
    /\ EnumAdvance /\ last.hook = NoHook
    /\ last.mode = "over" /\ Len(last.fetched) = 2
    /\ last.ret = Item(1) /\ last.err = NoErr
    /\ out = << Item(1) >> /\ pos = 2

\* C9: when the hook yields no value and looking up the configured method or
\* calling it fails, begin iteration of the provider adapter returns no
\* object with exactly that failure pending and creates no iterator; an
\* iterator is created only when the method was found, was called without
\* failure and returned None.
C9_ProviderFailurePropagates ==
    /\ (ProviderBegin /\ last.hook = NoHook
           /\ (~last.method.ok \/ last.mode = "fail")) =>
          /\ last.ret = NullObj
          /\ last.err = (IF ~last.method.ok THEN last.method.err
                         ELSE last.inj)
          /\ last.err \in LookupErrors \cup CallErrors
          /\ ~last.method.ok => last.calls = 0
          /\ last.made = 0
    /\ (ProviderBegin /\ (last.made > 0 \/ last.ret.k = "seqiter")) =>
          /\ last.hook = NoHook
          /\ last.method.ok
          /\ last.mode = "ok"
          /\ last.mval = Py_None

C9_Witness ==
    /\ ProviderBegin /\ last.hook = NoHook /\ last.method.ok
    /\ last.mode = "fail" /\ last.inj = "com_error"
    /\ last.ret = NullObj /\ last.err = "com_error"

\* What the host accepts as an iterator: an object whose type has the
\* advance entry point.
IsIterator(v) == v.k \in {"seqiter", "enum"}

\* C10 as stated: whatever the hook and the method do, a value returned by
\* begin iteration of the provider adapter is an iterator and is not None.
C10_Stated_AlwaysAnIterator ==
    (ProviderBegin /\ last.ret # NullObj /\ last.err = NoErr) =>
        /\ IsIterator(last.ret)
        /\ last.ret # Py_None

\* C10: a value returned by begin iteration of the provider adapter is the
\* hook's value when the hook returned one (None included); otherwise it is
\* never None: it is a new iterator when the method returned None, and the
\* method's result unchanged in every other case, so an iterator whenever
\* the method returned None or an iterator, and a non-iterator exactly when
\* the method returned a non-iterator other than None.
C10_IteratorUnlessPassedThrough ==
    (ProviderBegin /\ last.ret # NullObj /\ last.err = NoErr) =>
        /\ last.hook # NoHook => last.ret = last.hook.ret
        /\ last.hook = NoHook =>
              /\ last.ret # Py_None
              /\ last.mval = Py_None => IsIterator(last.ret)
              /\ last.mval # Py_None => last.ret = last.mval
              /\ IsIterator(last.ret) <=>
                    (last.mval = Py_None \/ IsIterator(last.mval))

C10_Witness ==
    /\ ProviderBegin /\ last.hook = NoHook
    /\ last.mval = IntObj /\ last.ret = IntObj /\ last.err = NoErr

\* C11: every advance of the enumerator adapter asks the instance's hook
\* first: when the hook returns an object or leaves a failure pending, the
\* advance returns exactly that object or failure, looks up nothing and
\* calls nothing, and the native cursor stays where it was; only when the
\* hook yields no value is "Next" looked up.
C11_HookShortCircuitsAdvance ==
    /\ (EnumAdvance /\ last.hook # NoHook) =>
          /\ last.ret = last.hook.ret
          /\ last.err = last.hook.err
          /\ last.lookups = 0
          /\ last.calls = 0
          /\ last.method = Skipped
          /\ last.mode = "skipped"
          /\ pos = last.pos0
          /\ last.clean0 => out = ItemsUpTo(pos)
    /\ (EnumAdvance /\ last.hook = NoHook) =>
          /\ last.lookups = 1
          /\ last.attr = "Next"

C11_Witness ==
    /\ EnumAdvance
    /\ last.hook = [ret |-> NullObj, err |-> "HookError"]
    /\ last.ret = NullObj /\ last.err = "HookError"
    /\ last.pos0 = 1 /\ pos = 1 /\ Len(items) = 2

\* C12: an advance that gets past the hook and finds "Next" calls it exactly
\* once, asking for one item; an advance stopped by the hook or by the
\* lookup, and begin iteration, call nothing.  So the calls of "Next" made so
\* far are as many as the advances that got past the hook and the lookup, and
\* against a well-behaved enumerator the cursor has moved by one item per
\* advance: nothing is fetched ahead and nothing is skipped.
C12_OneFetchPerAdvance ==
    /\ (EnumAdvance /\ last.hook = NoHook /\ last.method.ok) =>
          /\ last.calls = 1
          /\ last.asked = 1
          /\ last.mode = "ok" =>
                /\ Len(last.fetched) <= 1
                /\ pos = last.pos0 + Len(last.fetched)
    /\ (EnumAdvance /\ ~(last.hook = NoHook /\ last.method.ok)) =>
          (last.calls = 0 /\ pos = last.pos0)
    /\ last.op = "enum_iter" =>
          (last.calls = 0 /\ last.lookups = 0 /\ pos = last.pos0)
    /\ extraFetches = 0
    /\ clean => /\ pos = Min(plainAdvances, Len(items))
                /\ out = ItemsUpTo(pos)

C12_Witness ==
    /\ EnumAdvance
    /\ clean
    /\ Len(items) = 2
    /\ plainAdvances = 3
    /\ last.calls = 1 /\ last.asked = 1
    /\ last.fetched = << >>
    /\ extraFetches = 0

\* C13: the sequence only moves forward and cannot be restarted.  No step
\* moves the native cursor back or takes back an item already returned;
\* begin iteration leaves the cursor and the items returned as they are and,
\* the hook yielding no value, returns the instance itself; the items
\* returned come in strictly ascending order, so none comes twice or after a
\* later one; exhaustion is signalled only with the cursor at the end, and
\* an advance made with the cursor at the end that falls through to a plain
\* fetch signals exhaustion again and leaves the cursor there.
C13_ForwardOnly ==
    [][ /\ pos' >= pos
        /\ Len(out') >= Len(out)
        /\ SubSeq(out', 1, Len(out)) = out
        /\ \A i \in 1..(Len(out') - 1) : out'[i].n < out'[i + 1].n
        /\ last'.op = "enum_iter" =>
              /\ pos' = pos
              /\ out' = out
              /\ last'.hook = NoHook => last'.ret = SelfObj
        /\ (last'.op = "enum_iternext" /\ last'.err = "StopIteration"
               /\ last'.hook = NoHook) => pos' = Len(items')
        /\ (last'.op = "enum_iternext" /\ last'.hook = NoHook
               /\ last'.method.ok /\ last'.mode = "ok"
               /\ last'.pos0 = Len(items') /\ pos = Len(items)) =>
              /\ last'.ret = NullObj
              /\ last'.err = "StopIteration"
              /\ pos' = pos
              /\ out' = out
      ]_vars

C13_Witness ==
    /\ last.op = "enum_iter"
    /\ last.ret = SelfObj
    /\ clean
    /\ Len(items) = 2
    /\ plainAdvances = 3
    /\ pos = 2
    /\ out = ItemsUpTo(2)

(***************************************************************************)
(* Properties of the order of construction.                                *)
(***************************************************************************)
\* The descriptor the constructor of t's kind builds, in the present state,
\* on zero storage from t's declaration and the base pBase.
Build(t, pBase) ==
    CASE KindOf(t) = "plain" ->
            PyComTypeObject_ctor(ZeroType, DeclName(t), pBase, DeclSize(t),
                DeclMethods(t), DeclCtor(t))
      [] KindOf(t) = "enum" ->
            PyComEnumTypeObject_ctor(ZeroType, DeclName(t), pBase,
                DeclSize(t), DeclMethods(t), DeclCtor(t))
      [] OTHER ->
            PyComEnumProviderTypeObject_ctor(ZeroType, DeclName(t), pBase,
                DeclSize(t), DeclMethods(t), DeclCtor(t), DeclEnumName(t))

\* What a lookup of nm from the head of the chain p finds when every type
\* of p was constructed after its base: the binding of the nearest type of
\* p that binds nm.
BasesFirstLookup(p, nm) ==
    LET ks == {k \in 1..Len(p) : Binds(p[k], nm)} IN
    IF ks = {} THEN NotFound
    ELSE Binding(p[CHOOSE k \in ks : \A x \in ks : k <= x], nm)

\* The types on the way from t to the root, as the constructors were told,
\* that are not constructed yet.
Unbuilt(t) ==
    {ChainOf(t, MaxTypes)[i] : i \in 1..Len(ChainOf(t, MaxTypes))}
        \ constructed

RECURSIVE LinkWalkEnds(_, _)
LinkWalkEnds(t, fuel) ==
    IF t = 0 THEN TRUE
    ELSE IF fuel = 0 THEN FALSE
    ELSE LinkWalkEnds(tobj[t].chain.link, fuel - 1)

\* No type comes twice on the way from t toward the root, as the
\* constructors were told.
NoBaseTwice(t) ==
    LET p == ChainOf(t, MaxTypes + 1) IN
    \A i, j \in 1..Len(p) : i # j => p[i] # p[j]

C16_DescriptorsImmutable ==
    [][ /\ \A t \in constructed :
              /\ t \in constructed'
              /\ tobj'[t] = tobj[t]
              /\ ctorBase'[t] = ctorBase[t]
        /\ last' # last => (tobj' = tobj /\ constructed' = constructed)
        /\ self.ob_type # 0 => self' = self
      ]_vars

C16_Witness ==
    /\ constructed = TypeIds
    /\ EnumAdvance
    /\ pos = 1
    /\ \E u \in TypeIds : ctorBase[u] = self.ob_type
    /\ tobj[self.ob_type] = Build(self.ob_type, ctorBase[self.ob_type])

\* C17: whatever its base holds, a constructed descriptor carries the name,
\* the instance size, the base and the constructor function it was given;
\* an enumerator-type descriptor has both the begin and the advance entry
\* point and the iterable flag, a provider-type descriptor has the begin
\* entry point and the flag, no advance entry point, and the method name it
\* was given, and a plain descriptor has no entry point and no flag.
C17_SlotsByKind ==
    \A t \in constructed :
        /\ tobj[t].tp_name = DeclName(t)
        /\ tobj[t].tp_basicsize = DeclSize(t)
        /\ tobj[t].baseType = ctorBase[t]
        /\ tobj[t].ctor = DeclCtor(t)
        /\ KindOf(t) = "enum" =>
              /\ tobj[t].tp_iter = "PyComEnumTypeObject::iter"
              /\ tobj[t].tp_iternext = "PyComEnumTypeObject::iternext"
              /\ "Py_TPFLAGS_HAVE_ITER" \in tobj[t].tp_flags
              /\ tobj[t].enum_method_name = NoName
        /\ KindOf(t) = "provider" =>
              /\ tobj[t].tp_iter = "PyComEnumProviderTypeObject::iter"
              /\ tobj[t].tp_iternext = NoSlot
              /\ "Py_TPFLAGS_HAVE_ITER" \in tobj[t].tp_flags
              /\ tobj[t].enum_method_name = DeclEnumName(t)
        /\ KindOf(t) = "plain" =>
              /\ tobj[t].tp_iter = NoSlot
              /\ tobj[t].tp_iternext = NoSlot
              /\ "Py_TPFLAGS_HAVE_ITER" \notin tobj[t].tp_flags
              /\ tobj[t].enum_method_name = NoName

\* A plain type and a provider type derived from a constructed enumerator
\* type.
C17_Witness ==
    \E e, p, q \in constructed :
        /\ KindOf(e) = "enum" /\ KindOf(p) = "plain"
        /\ KindOf(q) = "provider"
        /\ ctorBase[p] = e /\ ctorBase[q] = e
        /\ tobj[e].tp_iternext # NoSlot
        /\ tobj[p].tp_iter = NoSlot
        /\ tobj[q].tp_iternext = NoSlot
        /\ tobj[p].tp_basicsize # tobj[e].tp_basicsize

(***************************************************************************)
(* Properties of every entry point.                                        *)
(***************************************************************************)
\* C18: every call of an entry point, whatever the hook, the lookup, the
\* call and the inspection of the result gave, returns either an object
\* with no failure or exhaustion signal pending, or no object with one
\* failure or exhaustion signal pending.
C18_ErrorContract ==
    last.op # "none" =>
        \/ last.ret # NullObj /\ last.err = NoErr
        \/ last.ret = NullObj /\ last.err # NoErr

\* The references to o the entry point holds after the first k events of tr.
RECURSIVE Held(_, _, _)
Held(tr, o, k) ==
    IF k = 0 THEN 0
    ELSE Held(tr, o, k - 1)
         + (IF tr[k].ob # o THEN 0
            ELSE IF tr[k].ev \in {"new", "incref"} THEN 1
            ELSE IF tr[k].ev \in {"decref", "return"} THEN -1
            ELSE 0)

\* The change of o's reference count over the whole of tr.
RECURSIVE RefChange(_, _, _)
RefChange(tr, o, k) ==
    IF k = 0 THEN 0
    ELSE RefChange(tr, o, k - 1)
         + (IF tr[k].ob # o THEN 0
            ELSE IF tr[k].ev \in {"new", "incref"} THEN 1
            ELSE IF tr[k].ev = "decref" THEN -1
            ELSE 0)

Count(tr, e, o) == Cardinality({k \in 1..Len(tr) : tr[k] = Ev(e, o)})

RefObjects(tr) == {tr[k].ob : k \in 1..Len(tr)}

Temporaries == {"method", "args", "dummy"}

\* C19: on every path of every entry point the references balance.  An
\* object other than the borrowed instance is used, released or returned
\* only while the entry point holds a reference to it; every temporary that
\* was obtained is released exactly once; at the end the entry point holds
\* nothing; a call that returns an object hands over exactly one reference,
\* as its last act, and raises that object's count by one and no other
\* (begin iteration returning the instance adds one reference to it), and a
\* call that returns no object leaves every count as it was.
C19_ReferencesBalanced ==
    LET tr == last.refs
        rets == {k \in 1..Len(tr) : tr[k].ev = "return"}
    IN  /\ \A k \in 1..Len(tr) :
              (tr[k].ev \in {"use", "decref", "return"} /\ tr[k].ob # "self")
                  => Held(tr, tr[k].ob, k - 1) >= 1
        /\ \A o \in RefObjects(tr) : Held(tr, o, Len(tr)) = 0
        /\ \A o \in Temporaries \cap RefObjects(tr) :
              Count(tr, "new", o) = 1 /\ Count(tr, "decref", o) = 1
        /\ last.ret = NullObj =>
              /\ rets = {}
              /\ \A o \in RefObjects(tr) : RefChange(tr, o, Len(tr)) = 0
        /\ last.ret # NullObj =>
              /\ rets = {Len(tr)}
              /\ \A o \in RefObjects(tr) :
                    RefChange(tr, o, Len(tr)) =
                        IF o = tr[Len(tr)].ob THEN 1 ELSE 0
        /\ (last.op = "enum_iter" /\ last.ret = SelfObj) =>
              tr = << Ev("incref", "self"), Ev("return", "self") >>
        /\ last.calls = 1 => Count(tr, "new", "method") = 1
        /\ (last.calls = 1 /\ last.mode # "fail") =>
              Count(tr, "new", "result") = 1

C19_Witness ==
    /\ ProviderBegin
    /\ last.mval = Py_None
    /\ last.ret.k = "seqiter"
    /\ Count(last.refs, "decref", "result") = 1
    /\ Count(last.refs, "decref", "dummy") = 1
    /\ Count(last.refs, "return", "iterator") = 1
    /\ Len(iters) = 2

(***************************************************************************)
(* A consumer that keeps advancing.  The types are constructed, bases      *)
(* first: type 1 is the root and every other type derives from it.  The    *)
(* consumer never stops calling the advance entry point of an enumerator   *)
(* instance, which is the fairness stated; what each call meets (the hook, *)
(* the lookup, the native enumerator) is left open.                        *)
(***************************************************************************)
LiveBase(t) == IF t = 1 THEN 0 ELSE 1

LiveInit ==
    /\ tobj = [t \in TypeIds |-> Build(t, LiveBase(t))]
    /\ constructed = TypeIds
    /\ ctorBase = [t \in TypeIds |-> LiveBase(t)]
    /\ self = [ob_type |-> 0]
    /\ items = << >>
    /\ pos = 0
    /\ out = << >>
    /\ clean = TRUE
    /\ iters = << >>
    /\ last = NoCall
    /\ plainAdvances = 0
    /\ extraFetches = 0

Consume ==
    \E h \in HookOutcomes : \E m \in LookupsAfter(h) :
        \E mode \in ModesAfter(h, m) : \E e \in ErrorsOf(mode) :
            CallEnumIterNext(h, m, mode, e)

LiveNext ==
    \/ \E t \in TypeIds : \E n \in 0..MaxItems : CreateInstance(t, n)
    \/ \E h \in HookOutcomes : CallEnumIter(h)
    \/ Consume
    \/ \E h \in HookOutcomes : \E m \in LookupsAfter(h) :
         \E r \in MethodOutcomesAfter(h, m) : CallProviderIter(h, m, r)

LiveSpec == LiveInit /\ [][LiveNext]_vars /\ WF_vars(Consume)

\* self is an instance of an enumerator type.
EnumInstance ==
    /\ self.ob_type # 0
    /\ tobj[self.ob_type].tp_iternext = "PyComEnumTypeObject::iternext"

\* The last advance handed the consumer no object: exhaustion or a failure.
Stopped == EnumAdvance /\ last.ret = NullObj /\ last.err # NoErr

\* The last advance handed the consumer what the hook returned.
HookYields == EnumAdvance /\ last.hook.ret # NullObj

\* C20 as stated: whatever the hook does, a consumer that keeps advancing
\* an enumerator instance eventually receives exhaustion or a failure.
C20_Stated_ConsumerStops == EnumInstance ~> Stopped

\* C20: a consumer that keeps advancing an enumerator instance over
\* finitely many items receives, from any point on, exhaustion or a failure
\* or else a value of the hook: it cannot receive items of the enumerator
\* forever, and it receives objects forever only when the hook keeps
\* returning them.
C20_ConsumerStopsUnlessHookYields == EnumInstance ~> (Stopped \/ HookYields)

C20_Witness ==
    /\ Stopped
    /\ last.err = "StopIteration"
    /\ Len(items) = 2
    /\ out = ItemsUpTo(2)
    /\ ~clean

====
